---------------------------- MODULE Spec2Model ----------------------------
(***************************************************************************)
(* Model of mybot.py: a Telegram bot that records customer phone numbers   *)
(* in the SQLite table clients(username, phone_number UNIQUE, added_time). *)
(*                                                                         *)
(* A string is a sequence of one-character strings.  A table is a bag of   *)
(* rows (SELECT without ORDER BY).  The database file is shared by         *)
(* connections; each handler is modelled at the granularity of its SQL     *)
(* statements.                                                             *)
(*   SeqSpec runs each handler to completion before the next starts, as    *)
(*     the asyncio event loop of main() does: no handler awaits between    *)
(*     its statements.                                                     *)
(*   Spec lets handlers interleave between statements: several bot         *)
(*     processes on one database file, the concurrent callers of the       *)
(*     design.                                                             *)
(*   ValSpec runs the two validations alone over a family of strings.      *)
(* A connection that is not closed stays open, with the write lock of its  *)
(* transaction, until the interpreter collects it.                         *)
(***************************************************************************)
EXTENDS Integers, Sequences, FiniteSets, Bags, TLC

\* ------------------------------------------------------------------ bounds
MaxClock == 2      \* the wall clock takes the values 1..MaxClock
MaxRows == 4       \* import is not started when it could grow the table past this
MaxBatch == 3      \* longest argument list of /batch
MaxBody == 17      \* longest run of characters after the prefix of a probe string

\* --------------------------------------------------------------- constants
MinDigits == 7
MaxDigits == 15

\* ----------------------------------------------------------------- strings
AsciiDigits == {"0", "1", "2", "3", "4", "5", "6", "7", "8", "9"}
\* characters for which str.isdigit() is true although they are not decimal
\* digits; "sup2" stands for the one character U+00B2 (superscript two)
OtherDigits == {"sup2"}
Whitespace == {" "}

Rep(n, ch) == [i \in 1..n |-> ch]

\* text[1:]
Rest(s) == IF Len(s) = 0 THEN <<>> ELSE Tail(s)

RECURSIVE LStrip(_)
LStrip(s) == IF Len(s) > 0 /\ Head(s) \in Whitespace THEN LStrip(Tail(s)) ELSE s

RECURSIVE RStrip(_)
RStrip(s) ==
    IF Len(s) > 0 /\ s[Len(s)] \in Whitespace
    THEN RStrip(SubSeq(s, 1, Len(s) - 1))
    ELSE s

\* str.strip()
Strip(s) == RStrip(LStrip(s))

\* str.startswith("+")
StartsWithPlus(s) == Len(s) > 0 /\ s[1] = "+"

\* str.isdigit(): non-empty and every character is a digit character
IsDigit(s) == Len(s) > 0 /\ \A i \in 1..Len(s) : s[i] \in AsciiDigits \cup OtherDigits

\* the test of handle_message
ValidSingle(text) ==
    StartsWithPlus(text) /\ IsDigit(Rest(text))
        /\ MinDigits <= Len(Rest(text)) /\ Len(Rest(text)) <= MaxDigits

\* the test of batch_input
ValidBatch(num) ==
    StartsWithPlus(num) /\ IsDigit(Rest(num))
        /\ MinDigits <= Len(Rest(num)) /\ Len(Rest(num)) <= MaxDigits

\* ------------------------------------------------------------------ inputs
P1 == <<"+">> \o Rep(7, "1")
P2 == <<"+">> \o Rep(15, "2")
PShort == <<"+">> \o Rep(6, "1")
PLong == <<"+">> \o Rep(16, "2")
PAlpha == <<"a", "b", "c">>
PPadded == <<" ">> \o P1 \o <<" ">>

\* message texts a caller may send
Texts == {P1, P2, PShort, PPadded}
\* context.args: the message split on whitespace, so no token holds a space
Tokens == {P1, P2, PLong}

\* argument lists of /batch: 0..n tokens
RECURSIVE SeqsUpTo(_, _)
SeqsUpTo(S, n) ==
    IF n = 0 THEN {<<>>}
    ELSE LET shorter == SeqsUpTo(S, n - 1)
         IN shorter \cup {Append(q, x) : q \in {r \in shorter : Len(r) = n - 1}, x \in S}

ArgLists == SeqsUpTo(Tokens, MaxBatch)
\* the texts and argument lists of the handlers that run beside other handlers
RaceTexts == {P1, PShort}
RaceArgLists == {<<P1>>, <<P2, P1>>, <<P2, PLong, P1>>}

\* the strings the validations are probed with: a prefix, then up to MaxBody
\* characters "1" of which at most one is replaced by another character
Prefixes == {<<>>, <<"+">>, <<"a">>, <<"+", "+">>}
Odd == {"9", "a", "+", "sup2"}
WithOdd(n, k, ch) == [i \in 1..n |-> IF i = k THEN ch ELSE "1"]
ValStrings ==
    {pre \o WithOdd(n, k, ch) :
        pre \in Prefixes, n \in 0..MaxBody, k \in 0..MaxBody, ch \in Odd}

\* spreadsheet cells: an empty cell is read as NaN (text columns) or NaT (date
\* columns); sqlite3 binds NaN as NULL and cannot bind NaT
NaN == <<"NaN">>
NULL == <<"NULL">>
NaT == 0
ColumnNames == {"username", "phone_number", "added_time"}

Row(u, p, t) == [username |-> u, phone_number |-> p, added_time |-> t]

\* the uploaded files: [readable, columns, rows]
Sheet(rows) == [readable |-> TRUE, columns |-> ColumnNames, rows |-> rows]
FileMixed == Sheet(<<Row("zed", PAlpha, 1), Row("zed", P1, 1)>>)
FileBlank == Sheet(<<Row("zed", NaN, 1), Row("zed", NaN, 1)>>)
FileNaT == Sheet(<<Row("zed", P2, 1), Row("zed", P1, NaT)>>)
FileNoColumn == [readable |-> TRUE, columns |-> {"username", "added_time"},
                 rows |-> <<Row("zed", NaN, 1)>>]
FileUnreadable == [readable |-> FALSE, columns |-> {}, rows |-> <<>>]
Files == {FileMixed, FileBlank, FileNaT, FileNoColumn, FileUnreadable}

Callers == {"c1", "c2"}
\* update.message.from_user.username; "" is an absent username
Handle(c) == IF c = "c1" THEN "alice" ELSE ""

\* ------------------------------------------------------------------- state
VARIABLES
    db,       \* committed rows of table clients
    clock,    \* pd.Timestamp.now(), to the second
    hm,       \* per caller: the frame of handle_message
    batch,    \* the frame of batch_input and its connection
    imp,      \* import_data: the file, the summary returned, its connection
    exp       \* export: the document clients.xlsx sent to the chat

vars == <<db, clock, hm, batch, imp, exp>>

\* raw is update.message.text; stored0 records whether the stripped text was
\* stored when the handler started; outcome is the reply sent; conn tells
\* that a connection the handler opened has not been closed
Idle == [pc |-> "idle", raw |-> <<>>, text |-> <<>>, added_time |-> 0,
         outcome |-> "", stored0 |-> FALSE, conn |-> FALSE]

\* db0 records the table when the batch started, marks the list each token
\* went to
BatchIdle == [pc |-> "idle", numbers |-> <<>>, i |-> 0, num |-> <<>>,
              username |-> "", added_time |-> 0,
              added_list |-> <<>>, exists_list |-> <<>>, invalid_list |-> <<>>,
              marks |-> <<>>,
              pending |-> EmptyBag, in_transaction |-> FALSE, db0 |-> EmptyBag,
              conn |-> FALSE]

\* conn: the connection of import_data has not been closed; in_transaction:
\* it holds the write lock of its open transaction
NoImport == [result |-> "", file |-> FileUnreadable, conn |-> FALSE,
             in_transaction |-> FALSE]

\* no document has been sent
NoExport == [sent |-> FALSE, file |-> FileUnreadable]

\* SELECT 1 FROM clients WHERE phone_number = ? over the rows `rows`
Select(rows, phone_number) ==
    \E r \in BagToSet(rows) : r.phone_number = phone_number

\* INSERT INTO clients VALUES (...) into the rows `rows`
Insert(rows, row) == rows (+) SetToBag({row})

\* number_exists connected to another database file, where the table is empty
NumberExistsElsewhere(phone_number) == Select(EmptyBag, phone_number)

\* number_exists: a fresh connection sees the committed rows
number_exists(phone_number) == Select(db, phone_number)

\* from_user.username without the default
OrUnknownOff(u) == u

\* from_user.username or "unknown"
OrUnknown(u) == IF u = "" THEN "unknown" ELSE u

\* another connection holds the write lock of the database file
Locked == batch.in_transaction \/ imp.in_transaction

\* no handler is running
Quiet ==
    /\ \A c \in Callers : hm[c].pc = "idle"
    /\ batch.pc = "idle"
    /\ imp.result = ""
    /\ ~exp.sent

\* no handler is between two of its statements: a reply to a message may
\* still be on display
Settled ==
    /\ \A c \in Callers : hm[c].pc \in {"idle", "done"}
    /\ batch.pc = "idle"
    /\ imp.result = ""
    /\ ~exp.sent

Init ==
    /\ db = EmptyBag
    /\ clock = 1
    /\ hm = [c \in Callers |-> Idle]
    /\ batch = BatchIdle
    /\ imp = NoImport
    /\ exp = NoExport

Tick ==
    /\ clock < MaxClock
    /\ clock' = clock + 1
    /\ UNCHANGED <<db, hm, batch, imp, exp>>

\* ---------------------------------------------------------- handle_message
\* handle_message run to its end, as a function of the committed rows, the
\* username of line 91, the message text and the time: [outcome, rows]
handle_message(table, username, raw, t) ==
    LET text == Strip(raw)
    IN IF ~ValidSingle(text)
       THEN [outcome |-> "Invalid", rows |-> table]
       ELSE IF Select(table, text)
       THEN [outcome |-> "Duplicate", rows |-> table]
       ELSE [outcome |-> "Added", rows |-> Insert(table, Row(username, text, t))]

\* handle_message up to the return of number_exists
Receive(c, raw) ==
    /\ hm[c].pc = "idle"
    /\ LET text == Strip(raw)
           f == [Idle EXCEPT !.raw = raw, !.text = text,
                             !.stored0 = Select(db, text)]
       IN hm' = [hm EXCEPT ![c] =
                    IF ~ValidSingle(text)
                    THEN [f EXCEPT !.pc = "done", !.outcome = "Invalid"]
                    ELSE IF number_exists(text)
                    THEN [f EXCEPT !.pc = "done", !.outcome = "Duplicate"]
                    ELSE [f EXCEPT !.pc = "add", !.added_time = clock]]
    /\ UNCHANGED <<db, clock, batch, imp, exp>>

\* add_number without conn.commit(): close() drops the insert
AddNumberNoCommit(c) ==
    /\ hm[c].pc = "add"
    /\ ~Locked
    /\ hm' = [hm EXCEPT ![c].pc = "done", ![c].outcome = "Added",
                        ![c].added_time = 0]
    /\ UNCHANGED <<db, clock, batch, imp, exp>>

\* add_number, then the reply "saved"
AddNumber(c) ==
    /\ hm[c].pc = "add"
    /\ ~Locked
    /\ db' = IF Select(db, hm[c].text)
             THEN db       \* sqlite3.IntegrityError, passed over
             ELSE Insert(db, Row(OrUnknown(Handle(c)), hm[c].text, hm[c].added_time))
    /\ hm' = [hm EXCEPT ![c].pc = "done", ![c].outcome = "Added",
                        ![c].added_time = 0]
    /\ UNCHANGED <<clock, batch, imp, exp>>

\* add_number while another connection keeps the write lock past the busy
\* timeout: sqlite3.OperationalError, which nothing catches; conn.close() is
\* not reached
AddNumberLocked(c) ==
    /\ hm[c].pc = "add"
    /\ Locked
    /\ hm' = [hm EXCEPT ![c].pc = "done", ![c].outcome = "Error",
                        ![c].added_time = 0, ![c].conn = TRUE]
    /\ UNCHANGED <<db, clock, batch, imp, exp>>

\* the handler returns; a connection it left open is collected
Return(c) ==
    /\ hm[c].pc = "done"
    /\ hm' = [hm EXCEPT ![c] = Idle]
    /\ UNCHANGED <<db, clock, batch, imp, exp>>

\* ------------------------------------------------------------- batch_input
\* batch_input up to the loop; without arguments it replies the usage text
BatchStart(c, args) ==
    /\ batch.pc = "idle"
    /\ batch' = IF args = <<>>
                THEN [BatchIdle EXCEPT !.pc = "done"]
                ELSE [BatchIdle EXCEPT !.pc = "loop",
                                       !.numbers = args,
                                       !.i = 1,
                                       !.username = OrUnknown(Handle(c)),
                                       !.added_time = clock,
                                       !.db0 = db,
                                       !.conn = TRUE]
    /\ UNCHANGED <<db, clock, hm, imp, exp>>

\* BatchToken with the test of fetchone() inverted
BatchTokenInverted ==
    /\ batch.pc = "loop"
    /\ batch.i <= Len(batch.numbers)
    /\ LET num == Strip(batch.numbers[batch.i])
       IN batch' =
            IF ValidBatch(num)
            THEN IF ~Select(db (+) batch.pending, num)
                 THEN [batch EXCEPT !.exists_list = Append(@, num),
                                    !.marks = Append(@, "Duplicate"),
                                    !.i = @ + 1]
                 ELSE [batch EXCEPT !.num = num, !.pc = "insert"]
            ELSE [batch EXCEPT !.invalid_list = Append(@, num),
                               !.marks = Append(@, "Invalid"),
                               !.i = @ + 1]
    /\ UNCHANGED <<db, clock, hm, imp, exp>>

\* BatchToken with the SELECT on a connection of its own, as number_exists
\* does: it does not see the batch's uncommitted rows
BatchTokenCommittedOnly ==
    /\ batch.pc = "loop"
    /\ batch.i <= Len(batch.numbers)
    /\ LET num == Strip(batch.numbers[batch.i])
       IN batch' =
            IF ValidBatch(num)
            THEN IF Select(db, num)
                 THEN [batch EXCEPT !.exists_list = Append(@, num),
                                    !.marks = Append(@, "Duplicate"),
                                    !.i = @ + 1]
                 ELSE [batch EXCEPT !.num = num, !.pc = "insert"]
            ELSE [batch EXCEPT !.invalid_list = Append(@, num),
                               !.marks = Append(@, "Invalid"),
                               !.i = @ + 1]
    /\ UNCHANGED <<db, clock, hm, imp, exp>>

\* one token: strip, validate, SELECT on the batch's connection
BatchToken ==
    /\ batch.pc = "loop"
    /\ batch.i <= Len(batch.numbers)
    /\ LET num == Strip(batch.numbers[batch.i])
       IN batch' =
            IF ValidBatch(num)
            THEN IF Select(db (+) batch.pending, num)
                 THEN [batch EXCEPT !.exists_list = Append(@, num),
                                    !.marks = Append(@, "Duplicate"),
                                    !.i = @ + 1]
                 ELSE [batch EXCEPT !.num = num, !.pc = "insert"]
            ELSE [batch EXCEPT !.invalid_list = Append(@, num),
                               !.marks = Append(@, "Invalid"),
                               !.i = @ + 1]
    /\ UNCHANGED <<db, clock, hm, imp, exp>>

\* BatchInsert with added_list.insert(0, num)
BatchInsertPrepend ==
    /\ batch.pc = "insert"
    /\ ~imp.in_transaction
    /\ batch' =
         IF Select(db (+) batch.pending, batch.num)
         THEN [batch EXCEPT !.pc = "raised", !.in_transaction = TRUE]
         ELSE [batch EXCEPT !.pending = Insert(@, Row(batch.username, batch.num,
                                                      batch.added_time)),
                            !.added_list = <<batch.num>> \o @,
                            !.marks = Append(@, "Added"),
                            !.in_transaction = TRUE,
                            !.num = <<>>,
                            !.i = @ + 1,
                            !.pc = "loop"]
    /\ UNCHANGED <<db, clock, hm, imp, exp>>

\* BatchInsert with the time read again for each row
BatchInsertNow ==
    /\ batch.pc = "insert"
    /\ ~imp.in_transaction
    /\ batch' =
         IF Select(db (+) batch.pending, batch.num)
         THEN [batch EXCEPT !.pc = "raised", !.in_transaction = TRUE]
         ELSE [batch EXCEPT !.pending = Insert(@, Row(batch.username, batch.num,
                                                      clock)),
                            !.added_list = Append(@, batch.num),
                            !.marks = Append(@, "Added"),
                            !.in_transaction = TRUE,
                            !.num = <<>>,
                            !.i = @ + 1,
                            !.pc = "loop"]
    /\ UNCHANGED <<db, clock, hm, imp, exp>>

\* BatchInsert on a connection in autocommit mode: each INSERT is committed
\* at once
BatchInsertAutocommit ==
    /\ batch.pc = "insert"
    /\ ~imp.in_transaction
    /\ ~Select(db, batch.num)
    /\ db' = Insert(db, Row(batch.username, batch.num, batch.added_time))
    /\ batch' = [batch EXCEPT !.added_list = Append(@, batch.num),
                              !.marks = Append(@, "Added"),
                              !.num = <<>>,
                              !.i = @ + 1,
                              !.pc = "loop"]
    /\ UNCHANGED <<clock, hm, imp, exp>>

\* the INSERT of the token; it opens the connection's transaction
BatchInsert ==
    /\ batch.pc = "insert"
    /\ ~imp.in_transaction
    /\ batch' =
         IF Select(db (+) batch.pending, batch.num)
         THEN \* sqlite3.IntegrityError leaves batch_input
              [batch EXCEPT !.pc = "raised", !.in_transaction = TRUE]
         ELSE [batch EXCEPT !.pending = Insert(@, Row(batch.username, batch.num,
                                                      batch.added_time)),
                            !.added_list = Append(@, batch.num),
                            !.marks = Append(@, "Added"),
                            !.in_transaction = TRUE,
                            !.num = <<>>,
                            !.i = @ + 1,
                            !.pc = "loop"]
    /\ UNCHANGED <<db, clock, hm, imp, exp>>

\* the INSERT while the connection of a failed import keeps the write lock
\* past the busy timeout: sqlite3.OperationalError leaves batch_input
BatchInsertLocked ==
    /\ batch.pc = "insert"
    /\ imp.in_transaction
    /\ batch' = [batch EXCEPT !.pc = "failed"]
    /\ UNCHANGED <<db, clock, hm, imp, exp>>

\* the INSERT meets a failure of the storage (disk full, I/O error):
\* sqlite3.OperationalError leaves batch_input; whether a first INSERT had
\* taken the write lock by then is open
BatchInsertFails ==
    /\ batch.pc = "insert"
    /\ ~imp.in_transaction
    /\ \E lock \in (IF batch.in_transaction THEN {TRUE} ELSE BOOLEAN) :
          batch' = [batch EXCEPT !.pc = "failed", !.in_transaction = lock]
    /\ UNCHANGED <<db, clock, hm, imp, exp>>

\* BatchCommit without conn.commit(): close() drops the inserts
BatchCommitClosesOnly ==
    /\ batch.pc = "loop"
    /\ batch.i > Len(batch.numbers)
    /\ db' = db
    /\ batch' = [batch EXCEPT !.pc = "done", !.pending = EmptyBag,
                              !.in_transaction = FALSE, !.conn = FALSE]
    /\ UNCHANGED <<clock, hm, imp, exp>>

\* conn.commit(), conn.close() and the result message
BatchCommit ==
    /\ batch.pc = "loop"
    /\ batch.i > Len(batch.numbers)
    /\ db' = db (+) batch.pending
    /\ batch' = [batch EXCEPT !.pc = "done", !.pending = EmptyBag,
                              !.in_transaction = FALSE, !.conn = FALSE]
    /\ UNCHANGED <<clock, hm, imp, exp>>

BatchReturn ==
    /\ batch.pc = "done"
    /\ batch' = BatchIdle
    /\ UNCHANGED <<db, clock, hm, imp, exp>>

\* the frame of the failed call is dropped: its connection is collected,
\* which rolls its transaction back
BatchCollect ==
    /\ batch.pc \in {"raised", "failed"}
    /\ batch' = BatchIdle
    /\ UNCHANGED <<db, clock, hm, imp, exp>>

\* ------------------------------------------------------------- import_data
\* the value sqlite3 binds for a cell
Bind(cell) == IF cell = NaN THEN NULL ELSE cell

\* the rows of `rows` whose phone number is not p
Without(rows, p) ==
    [r \in {x \in BagToSet(rows) : x.phone_number # p} |-> CopiesIn(r, rows)]

\* InsertOrIgnore with INSERT OR REPLACE: a row whose phone number is stored
\* takes the place of the stored row
RECURSIVE InsertOrReplace(_, _, _)
InsertOrReplace(file, i, table) ==
    IF i > Len(file.rows) THEN [raised |-> FALSE, rows |-> table]
    ELSE IF ~(ColumnNames \subseteq file.columns)
    THEN [raised |-> TRUE, rows |-> table]
    ELSE IF file.rows[i].added_time = NaT
    THEN [raised |-> TRUE, rows |-> table]
    ELSE LET phone == Bind(file.rows[i].phone_number)
             row == Row(file.rows[i].username, phone, file.rows[i].added_time)
         IN InsertOrReplace(file, i + 1,
                IF phone # NULL /\ Select(table, phone)
                THEN Insert(Without(table, phone), row)
                ELSE Insert(table, row))

\* the loop of import_data from row i on, over the rows `table` its
\* connection sees: [raised, rows]
RECURSIVE InsertOrIgnore(_, _, _)
InsertOrIgnore(file, i, table) ==
    IF i > Len(file.rows) THEN [raised |-> FALSE, rows |-> table]
    ELSE IF ~(ColumnNames \subseteq file.columns)
    THEN [raised |-> TRUE, rows |-> table]        \* KeyError
    ELSE IF file.rows[i].added_time = NaT
    THEN [raised |-> TRUE, rows |-> table]        \* unsupported type
    ELSE LET phone == Bind(file.rows[i].phone_number)
             row == Row(file.rows[i].username, phone, file.rows[i].added_time)
         IN InsertOrIgnore(file, i + 1,
                IF phone # NULL /\ Select(table, phone)
                THEN table
                ELSE Insert(table, row))

\* import_data with a connection in autocommit mode: the rows inserted before
\* an exception stay
ImportDataAutocommit(file, table) ==
    LET r == IF file.readable THEN InsertOrIgnore(file, 1, table)
             ELSE [raised |-> TRUE, rows |-> table]
    IN [result |-> IF r.raised THEN "failed" ELSE "successful",
        rows |-> r.rows]

\* import_data as a function of the file and the committed rows: the rows
\* are inserted in one transaction, committed at the end; an exception
\* leaves the transaction uncommitted, and closing the connection rolls it
\* back
import_data(file, table) ==
    LET r == IF file.readable THEN InsertOrIgnore(file, 1, table)
             ELSE [raised |-> TRUE, rows |-> table]       \* pd.read_excel raises
    IN [result |-> IF r.raised THEN "failed" ELSE "successful",
        rows |-> IF r.raised THEN table ELSE r.rows]

\* the first INSERT of import_data is executed
FirstInsertRuns(file) ==
    /\ file.readable /\ file.rows # <<>> /\ ColumnNames \subseteq file.columns
    /\ file.rows[1].added_time # NaT

\* import_data; on an exception conn.close() is not reached: the connection,
\* and the write lock of its transaction once an INSERT has run, stay until
\* the connection is collected
ImportData(file) ==
    /\ imp.result = ""
    /\ ~Locked
    /\ LET r == import_data(file, db)
       IN /\ BagCardinality(r.rows) <= MaxRows
          /\ db' = r.rows
          /\ imp' = [result |-> r.result, file |-> file,
                     conn |-> r.result = "failed" /\ file.readable,
                     in_transaction |-> r.result = "failed" /\ FirstInsertRuns(file)]
    /\ UNCHANGED <<clock, hm, batch, exp>>

\* import_data while another connection keeps the write lock past the busy
\* timeout: the first INSERT raises sqlite3.OperationalError
ImportLocked(file) ==
    /\ imp.result = ""
    /\ Locked
    /\ FirstInsertRuns(file)
    /\ imp' = [result |-> "failed", file |-> file, conn |-> TRUE,
               in_transaction |-> FALSE]
    /\ UNCHANGED <<db, clock, hm, batch, exp>>

\* import_file replies the summary; a connection left open is collected
ImportReturn ==
    /\ imp.result # ""
    /\ imp' = NoImport
    /\ UNCHANGED <<db, clock, hm, batch, exp>>

\* ----------------------------------------------------------- export_clients
\* the sequences that hold the rows of bag B, each as often as B does: the
\* orders in which SELECT * may return them
RECURSIVE Orderings(_)
Orderings(B) ==
    IF B = EmptyBag THEN {<<>>}
    ELSE UNION {{<<r>> \o q : q \in Orderings(B (-) SetToBag({r}))} : r \in BagToSet(B)}

\* a value written by DataFrame.to_excel and read back by pd.read_excel: NULL
\* is written as an empty cell, which is read as NaN
ToCell(v) == IF v = NULL THEN NaN ELSE v

\* export_clients and reply_document: the committed rows as clients.xlsx
Export ==
    /\ ~exp.sent
    /\ \E q \in Orderings(db) :
          exp' = [sent |-> TRUE,
                  file |-> Sheet([i \in 1..Len(q) |->
                                    Row(q[i].username,
                                        ToCell(q[i].phone_number),
                                        q[i].added_time)])]
    /\ UNCHANGED <<db, clock, hm, batch, imp>>

\* the document leaves the chat
ExportReturn ==
    /\ exp.sent
    /\ imp.result = ""
    /\ exp' = NoExport
    /\ UNCHANGED <<db, clock, hm, batch, imp>>

\* ---------------------------------------------------------- specifications
Next ==
    \/ \E c \in Callers, raw \in RaceTexts : Receive(c, raw)
    \/ \E c \in Callers : AddNumber(c)
    \/ \E c \in Callers : AddNumberLocked(c)
    \/ \E c \in Callers : Return(c)
    \/ \E c \in Callers, args \in RaceArgLists : BatchStart(c, args)
    \/ BatchToken
    \/ BatchInsert
    \/ BatchCommit
    \/ BatchInsertLocked
    \/ BatchInsertFails
    \/ BatchReturn
    \/ BatchCollect
    \/ \E file \in Files : ImportData(file)
    \/ \E file \in Files : ImportLocked(file)
    \/ ImportReturn

Spec == Init /\ [][Next]_vars

\* no handler beside another
Rested ==
    /\ \A c \in Callers : hm[c].pc = "idle"
    /\ batch.pc = "idle"

\* one handler at a time, and the connection a failed call left open is
\* collected before the next handler starts; the steps left out are those
\* another connection's open transaction or commit enables (see SeqNoRace)
\* and the failures of the storage
SeqNext ==
    \/ Tick
    \/ Settled /\ \E c \in Callers, raw \in Texts : Receive(c, raw)
    \/ \E c \in Callers : AddNumber(c)
    \/ \E c \in Callers : Return(c)
    \/ Quiet /\ \E c \in Callers, args \in ArgLists : BatchStart(c, args)
    \/ BatchToken
    \/ BatchInsert
    \/ BatchCommit
    \/ BatchReturn
    \/ Quiet /\ \E file \in Files : ImportData(file)
    \/ ImportReturn
    \/ Quiet /\ Export
    \/ (Rested /\ exp.sent) /\ ImportData(exp.file)
    \/ ExportReturn

SeqSpec == Init /\ [][SeqNext]_vars

\* the validations alone: one message or one /batch token at a time, over
\* ValStrings, up to the verdict; an accepted string is not inserted
ValNext ==
    \/ Quiet /\ \E s \in ValStrings : Receive("c1", s)
    \/ Return("c1")
    \/ Quiet /\ \E s \in ValStrings : BatchStart("c1", <<s>>)
    \/ BatchToken
    \/ BatchCommit
    \/ BatchReturn

ValSpec == Init /\ [][ValNext]_vars

\* under SeqSpec no step left out of SeqNext is enabled
SeqNoRace ==
    /\ batch.pc \notin {"raised", "failed"}
    /\ \A c \in Callers : hm[c].pc = "add" => ~Locked
    /\ batch.pc = "insert" => ~imp.in_transaction
    /\ imp.result = "" \/ ~batch.in_transaction

\* ------------------------------------------------------------------ claims
\* the format rule of the data model: "+" and MinDigits..MaxDigits decimal digits
FormatRule(s) ==
    /\ Len(s) >= 1 + MinDigits
    /\ Len(s) <= 1 + MaxDigits
    /\ s[1] = "+"
    /\ \A i \in 2..Len(s) : s[i] \in AsciiDigits

\* the rows of `rows` that hold phone number p
RowsOf(rows, p) == {r \in BagToSet(rows) : r.phone_number = p}
CountOf(rows, p) ==
    LET S == RowsOf(rows, p)
        RECURSIVE Sum(_)
        Sum(T) == IF T = {} THEN 0
                  ELSE LET r == CHOOSE x \in T : TRUE
                       IN CopiesIn(r, rows) + Sum(T \ {r})
    IN Sum(S)

\* C1: no two persisted records have the same phoneNumber, after any
\* interleaving of single submissions, batches and imports.
C1_UniquePhoneNumbers ==
    \A r \in BagToSet(db) : CountOf(db, r.phone_number) = 1

\* what the UNIQUE constraint does give: no two records share a phone number
\* that is not NULL
UniqueNotNull ==
    \A r \in BagToSet(db) : r.phone_number # NULL => CountOf(db, r.phone_number) = 1

\* C2: every persisted record's phoneNumber satisfies the format rule.
C2_StoredWellFormed ==
    \A r \in BagToSet(db) : FormatRule(r.phone_number)

\* C3: two callers submit the same valid number, not stored when either
\* checked, and neither meets a storage error: exactly one record is stored,
\* one caller is told Added and the other Duplicate.
C3_OneAddedOneDuplicate ==
    \A c \in Callers, d \in Callers :
        ( /\ c # d
          /\ hm[c].pc = "done" /\ hm[d].pc = "done"
          /\ hm[c].text = hm[d].text
          /\ ValidSingle(hm[c].text)
          /\ ~hm[c].stored0 /\ ~hm[d].stored0
          /\ hm[c].outcome # "Error" /\ hm[d].outcome # "Error" )
        => /\ CountOf(db, hm[c].text) = 1
           /\ {hm[c].outcome, hm[d].outcome} = {"Added", "Duplicate"}

\* C4: whenever the uniqueness constraint rejects an insert, the operation
\* recovers: the number is reported Duplicate and the operation goes on.
C4_RejectionRecovered ==
    [][ /\ \A c \in Callers :
            (hm[c].pc = "add" /\ hm'[c].pc = "done" /\ ~Locked
                /\ Select(db, hm[c].text))
            => hm'[c].outcome = "Duplicate"
        /\ (batch.pc = "insert" /\ batch'.pc \notin {"insert", "failed"}
                /\ Select(db (+) batch.pending, batch.num))
            => /\ batch'.pc = "loop"
               /\ batch'.exists_list = Append(batch.exists_list, batch.num)
      ]_vars

\* C5: a valid number not yet stored, submitted twice one after the other:
\* the first submission is answered Added, the second Duplicate, and one
\* record holds the number.
C5_AddedThenDuplicate ==
    \A c \in Callers, d \in Callers :
        ( /\ c # d
          /\ hm[c].pc = "done" /\ hm[d].pc = "done"
          /\ hm[c].text = hm[d].text
          /\ ValidSingle(hm[c].text)
          /\ ~hm[c].stored0 )
        => /\ hm[c].outcome = "Added"
           /\ hm[d].outcome = "Duplicate"
           /\ CountOf(db, hm[c].text) = 1

C5_Witness ==
    \E c \in Callers, d \in Callers :
        /\ c # d
        /\ hm[c].pc = "done" /\ hm[d].pc = "done"
        /\ hm[c].text = P2 /\ hm[d].text = P2
        /\ ~hm[c].stored0
        /\ hm[d].outcome = "Duplicate"

Occ(seq, x) == Cardinality({i \in 1..Len(seq) : seq[i] = x})

\* the tokens of the running batch after str.strip()
Stripped == [i \in 1..Len(batch.numbers) |-> Strip(batch.numbers[i])]

\* the batch has answered with its three lists
BatchDone == batch.pc = "done" /\ batch.numbers # <<>>

\* C7: in one batch, a valid number not stored when the batch starts is
\* Added at its first occurrence and Duplicate at every later one; it is in
\* the Added list once and one record holds it.
C7_FirstAddedRestDuplicate ==
    BatchDone =>
        \A i \in 1..Len(Stripped) :
            LET p == Stripped[i] IN
            (ValidBatch(p) /\ ~Select(batch.db0, p)) =>
                /\ batch.marks[i] =
                     IF \A j \in 1..(i - 1) : Stripped[j] # p
                     THEN "Added" ELSE "Duplicate"
                /\ Occ(batch.added_list, p) = 1
                /\ Occ(batch.exists_list, p) = Occ(Stripped, p) - 1
                /\ CountOf(db, p) = 1

C7_Witness ==
    /\ BatchDone
    /\ batch.numbers = <<P1, P1, P1>>
    /\ ~Select(batch.db0, P1)
    /\ batch.marks = <<"Added", "Duplicate", "Duplicate">>

\* a is b with some places left out
RECURSIVE IsSubseq(_, _)
IsSubseq(a, b) ==
    IF a = <<>> THEN TRUE
    ELSE IF b = <<>> THEN FALSE
    ELSE IF Head(a) = Head(b) THEN IsSubseq(Tail(a), Tail(b))
    ELSE IsSubseq(a, Tail(b))

\* C8: the lists Added, Duplicate and Invalid of a batch partition its tokens:
\* each token is in exactly one list, and each list keeps the order of the
\* input.
C8_ListsPartitionInput ==
    BatchDone =>
        LET lists == <<batch.added_list, batch.exists_list, batch.invalid_list>>
        IN /\ Len(lists[1]) + Len(lists[2]) + Len(lists[3]) = Len(Stripped)
           /\ \A x \in {Stripped[i] : i \in 1..Len(Stripped)} :
                Occ(lists[1], x) + Occ(lists[2], x) + Occ(lists[3], x)
                    = Occ(Stripped, x)
           /\ \A k \in 1..3 : IsSubseq(lists[k], Stripped)

C8_Witness ==
    /\ BatchDone
    /\ batch.numbers = <<P2, PLong, P1>>
    /\ batch.added_list = <<P2, P1>>
    /\ batch.invalid_list = <<PLong>>

\* C9: invalid or duplicate entries never abort a batch: it does not raise,
\* and when it has answered every valid entry is stored.
C9_BatchNeverAborts ==
    /\ batch.pc # "raised"
    /\ BatchDone =>
            \A i \in 1..Len(Stripped) :
                ValidBatch(Stripped[i]) => Select(db, Stripped[i])

C9_Witness ==
    /\ BatchDone
    /\ batch.numbers = <<PLong, P1, P1>>
    /\ batch.marks = <<"Invalid", "Added", "Duplicate">>
    /\ Select(db, P1)

\* the rows the running batch has inserted
BatchRows == BagToSet(batch.pending) \cup (BagToSet(db) \ BagToSet(batch.db0))

\* C10: the records one batch creates all carry the submitter and the time
\* read once when the batch started.
C10_SharedSubmitterAndTime ==
    (batch.pc \in {"loop", "insert"} \/ BatchDone) =>
        \A r \in BatchRows :
            /\ r.username = batch.username
            /\ r.added_time = batch.added_time

C10_Witness ==
    /\ BatchDone
    /\ Len(batch.added_list) = 2
    /\ batch.added_time < clock
    /\ Cardinality(BatchRows) = 2

\* C11: import is idempotent: for every file, rows with an invalid or a
\* missing phone number included, and every table, importing the file again
\* right after importing it leaves the table as the first import left it.
C11_ImportIdempotent ==
    imp.result # "" => import_data(imp.file, db).rows = db

\* a step of import_file: import_data returns its summary
ImportStep == imp.result = "" /\ imp'.result # ""

\* C12: exporting the table and importing the exported file at once adds no
\* record and leaves every record as it was.
C12_ExportImportAddsNothing ==
    [][(ImportStep /\ exp.sent /\ imp'.file = exp.file) => db' = db]_vars

\* C13: import of a readable file with the three columns treats its rows one
\* by one: it returns the success summary, each row with a well-formed phone
\* number not yet stored is added, and no row whose phone number breaks the
\* format rule is persisted, wherever such rows sit in the file.
C13_ImportSkipsMalformedRows ==
    [][(ImportStep /\ imp'.file.readable /\ ColumnNames \subseteq imp'.file.columns)
        => /\ imp'.result = "successful"
           /\ \A i \in 1..Len(imp'.file.rows) :
                LET p == Bind(imp'.file.rows[i].phone_number)
                IN IF FormatRule(p)
                   THEN CountOf(db', p) = 1
                   ELSE CountOf(db', p) = CountOf(db, p)
      ]_vars

\* C14: whenever import_data returns the failure summary (file unreadable,
\* a column missing, an error at a row), the table holds the records it held
\* before the call: no row of the file is persisted, neither when the summary
\* is returned nor when the connection left open is collected.
C14_FailedImportStoresNothing ==
    [][((imp.result = "failed" \/ imp'.result = "failed") /\ imp' # imp)
        => db' = db]_vars

C14_Witness ==
    /\ imp.result = "failed"
    /\ imp.file = FileNaT
    /\ imp.in_transaction
    /\ ~Select(db, P2)

\* C15: records are never changed and never removed: every step of every
\* operation leaves each stored record in the table, as often as it was; a
\* later submission or imported row with a stored phone number and another
\* submitter or time leaves the stored record as it is.
C15_RecordsKept ==
    [][\A r \in BagToSet(db) : CopiesIn(r, db') >= CopiesIn(r, db)]_vars

C15_Witness ==
    /\ imp.result = "successful"
    /\ imp.file = FileMixed
    /\ \E r \in BagToSet(db) :
          r.phone_number = P1 /\ r.username = "alice" /\ r.added_time = MaxClock

\* C16: the validation of single mode and the validation of batch mode each
\* accept a string iff it is "+" followed by 7 to 15 decimal digits, and they
\* give the same verdict on every string.
C16_ValidationIsFormatRule ==
    /\ \A c \in Callers :
          hm[c].pc \in {"add", "done"} =>
              LET accepted == hm[c].outcome # "Invalid"
              IN /\ accepted <=> FormatRule(hm[c].text)
                 /\ accepted <=> ValidBatch(hm[c].text)
    /\ batch.pc = "insert" =>
          FormatRule(batch.num) /\ ValidSingle(batch.num)
    /\ \A i \in 1..Len(batch.marks) :
          batch.marks[i] = "Invalid" =>
              ~FormatRule(Stripped[i]) /\ ~ValidSingle(Stripped[i])

\* C17: every connection an operation opened is closed when the operation
\* ends, on every exit path: success, invalid input, uniqueness rejection and
\* storage error.
C17_ConnectionsReleased ==
    /\ \A c \in Callers : hm[c].pc = "done" => ~hm[c].conn
    /\ batch.pc \in {"done", "raised", "failed"} => ~batch.conn
    /\ imp.result # "" => ~imp.conn /\ ~imp.in_transaction

\* the messages `numbers` sent one at a time to handle_message, each run to
\* its end before the next: [marks, rows]
RECURSIVE RepeatedSingle(_, _, _, _)
RepeatedSingle(numbers, username, t, table) ==
    IF numbers = <<>> THEN [marks |-> <<>>, rows |-> table]
    ELSE LET r == handle_message(table, username, Head(numbers), t)
             rest == RepeatedSingle(Tail(numbers), username, t, r.rows)
         IN [marks |-> <<r.outcome>> \o rest.marks, rows |-> rest.rows]

\* the steps of Receive and AddNumber make up the function handle_message
HandlerIsHandleMessage ==
    [][\A c \in Callers :
        /\ (hm[c].pc = "idle" /\ hm'[c].pc = "done") =>
              LET r == handle_message(db, OrUnknown(Handle(c)), hm'[c].raw, clock)
              IN hm'[c].outcome = r.outcome /\ db' = r.rows
        /\ (hm[c].pc = "idle" /\ hm'[c].pc = "add") =>
              handle_message(db, OrUnknown(Handle(c)), hm'[c].raw, clock).outcome
                  = "Added"
        /\ (hm[c].pc = "add" /\ hm'[c].pc = "done") =>
              LET r == handle_message(db, OrUnknown(Handle(c)), hm[c].raw,
                                      hm[c].added_time)
              IN hm'[c].outcome = r.outcome /\ db' = r.rows
      ]_vars

\* the phone numbers of `rows`, each with its submitter
PhoneAndSubmitter(rows) ==
    {<<r.phone_number, r.username>> : r \in BagToSet(rows)}

\* C18: run without other callers in between, a batch gives each token the
\* classification, and leaves the stored phone numbers with the submitters,
\* that sending the tokens one at a time to handle_message in the same order
\* gives and leaves.
C18_BatchIsRepeatedSingle ==
    BatchDone =>
        LET r == RepeatedSingle(batch.numbers, batch.username, batch.added_time,
                                batch.db0)
        IN /\ batch.marks = r.marks
           /\ PhoneAndSubmitter(db) = PhoneAndSubmitter(r.rows)
           /\ BagCardinality(db) = BagCardinality(r.rows)

C18_Witness ==
    /\ BatchDone
    /\ batch.numbers = <<P2, P1, P2>>
    /\ batch.marks = <<"Added", "Duplicate", "Duplicate">>
    /\ batch.username = "unknown"

\* the places of the Added list of the batch whose number is in the rows
\* `rows`
AddedSeen(b, rows) ==
    {i \in 1..Len(b.added_list) : Select(rows, b.added_list[i])}

\* C19: a batch is all-or-nothing about its one commit: only the step after
\* its last token writes the table; until then, and when the batch ends with
\* an error instead (a storage failure, or a uniqueness rejection another
\* caller's insert caused), none of the numbers it inserted is in the table,
\* and at no time does another connection see some of its Added numbers
\* without the others.
C19_BatchAllOrNothing ==
    [][ /\ batch' # batch =>
              \/ db' = db
              \/ batch.pc = "loop" /\ batch.i > Len(batch.numbers)
                    /\ batch'.pc = "done"
        /\ (batch.pc \in {"raised", "failed"} \/ batch'.pc \in {"raised", "failed"})
              => AddedSeen(batch, db') = {} /\ AddedSeen(batch', db') = {}
        /\ AddedSeen(batch', db') =
              IF batch'.pc = "done" THEN 1..Len(batch'.added_list) ELSE {}
      ]_vars

C19_Witness ==
    /\ batch.pc = "failed"
    /\ batch.numbers = <<P2, PLong, P1>>
    /\ batch.added_list = <<P2>>
    /\ batch.num = P1
    /\ ~Select(db, P2)

\* C20: a submission answered Invalid or Duplicate, alone or as an entry of a
\* batch, leaves the table as it was; a single submission answered Added
\* changes the table by one new record, whose phone number is the stripped
\* text and whose submitter is the caller's username, or "unknown" without
\* one.
C20_FrameEffects ==
    [][ /\ \A c \in Callers :
              /\ (hm[c].pc = "idle" /\ hm'[c].pc \in {"add", "done"}) => db' = db
              /\ (hm[c].pc = "add" /\ hm'[c].pc = "add") => db' = db
              /\ (hm[c].pc = "add" /\ hm'[c].pc = "done") =>
                    /\ hm'[c].outcome = "Added"
                    /\ \E t \in 1..MaxClock :
                          db' = db (+) SetToBag({Row(
                                    IF Handle(c) = "" THEN "unknown" ELSE Handle(c),
                                    Strip(hm'[c].raw), t)})
              /\ (hm[c].pc # "done" /\ hm'[c].pc = "done") =>
                    hm'[c].outcome \in {"Invalid", "Duplicate"} <=> hm[c].pc = "idle"
        /\ ( /\ Len(batch'.marks) = Len(batch.marks) + 1
             /\ batch'.marks[Len(batch'.marks)] \in {"Invalid", "Duplicate"} )
              => db' = db /\ batch'.pending = batch.pending
      ]_vars

C20_Witness ==
    \E c \in Callers :
        /\ hm[c].pc = "done" /\ hm[c].outcome = "Added"
        /\ hm[c].raw = PPadded
        /\ Handle(c) = ""
        /\ \E r \in BagToSet(db) : r.phone_number = P1 /\ r.username = "unknown"

=============================================================================
